---- MODULE Spec2Model ----
(***************************************************************************)
(* A model of the tutorial scripts of book/code and of the reference       *)
(* solutions of book/exercises.  Every script is a sequential program;     *)
(* each group of definitions below models one script (or one function or   *)
(* class of it) as a state machine whose inputs are drawn from small sets. *)
(***************************************************************************)
EXTENDS Integers, Naturals, Sequences, FiniteSets, TLC

VARIABLES
    \* ---- ch06_file_io.py / ch10_data.py: the running script
    script,      \* which script runs: "ch06" or "ch10"
    pc,          \* index of the current statement in the script's program
    at,          \* position inside the statement: "stmt", "body", "exit", "done", "aborted"
    fs,          \* the paths that exist on disk, each <<directory, name>>
    created,     \* every temporary path the script has created so far
    handles,     \* the paths of the file objects that are open
    exc,         \* the exception raised by the body of the current with-block
    \* ---- ch09_decorators.py: one use of `with managed_file(path, mode) as f`
    mf_pc,       \* "idle", "yielded", "finally", "done"
    mf_files,    \* the files that exist where managed_file opens them
    mf_open,     \* the paths of the file objects managed_file holds open
    mf_f,        \* the local f of the generator: the path it opened, or "none"
    mf_exc,      \* the exception the with-statement propagates, or "none"
    mf_uses,     \* number of completed uses (bounded)
    \* ---- ch07_errors.py: demonstrate_exceptions()
    de_i,        \* index of the loop over `exceptions`
    de_out,      \* the lines printed, each <<name, kind of the exception caught>>
    de_status,   \* "running", "returned", or "raised"
    \* ---- ch07_errors.py: process_data_safely(data)
    pds_pc,      \* "idle", "check", "try", "except", "returned", "raised"
    pds_data,    \* the argument
    pds_exc,     \* the exception in flight, or "none"
    pds_log,     \* the records logged during the call, each <<level, exception kind>>
    pds_result,  \* the value returned, or NoResult
    \* ---- ch11_testing.py: add(a, b) and divide(a, b)
    ar_fn,       \* the function called: "none", "add" or "divide"
    ar_a, ar_b,  \* its arguments
    ar_res,      \* its outcome: [raised, exc, msg, val]
    \* ---- ch04_oop.py: a call x.method() on an instance of A, B, C or D
    mro_self,    \* the class of the instance, or "none" before the call
    mro_stack,   \* the classes whose method is executing, innermost last
    mro_calls,   \* the classes whose method has been entered, in order
    mro_ret,     \* the value returned by the frame that returned last
    \* ---- ch08_iterators.py: CountUp(start, end) and count_up(start, end)
    it_start, it_end,  \* the arguments given to both
    cu_current,  \* CountUp.current
    cu_end,      \* CountUp.end
    cu_out,      \* the values __next__ has returned
    cu_stops,    \* how many times __next__ has raised StopIteration
    gen_pc,      \* the generator: "created", "suspended" (at the yield), "finished"
    gen_current, \* its local `current`
    gen_out,     \* the values it has yielded
    gen_stops,   \* how many times next() on it has raised StopIteration
    \* ---- ch04_exercises.py: the SortedList of show_solutions
    sl_items,    \* SortedList._items
    sl_op,       \* the last call: [op, item, before, raised]
    \* ---- ch04_exercises.py: the BankAccount of show_solutions
    ba_balance,       \* BankAccount._balance
    ba_transactions,  \* BankAccount._transactions, each <<kind, amount>>
    ba_op,            \* the last call: [op, amount, before, ret]
    ac_raised,        \* what the last assignment to account.balance raised, or "none"
    ac_ref,           \* the list get_transaction_history returned last: "none",
                      \* "copy" (a new list) or "internal" (the _transactions list itself)
    ac_copy,          \* the contents of that list when it is a new list
    ac_mutations,     \* how many times the caller has mutated the returned list
    \* ---- ch04_exercises.py: the Deck of show_solutions
    dk_cards,         \* Deck.cards, each card <<suit, rank>>
    dk_dealt,         \* every card deal() has returned so far, in order
    dk_op,            \* the last call: [op, n, before, ret]
    dk_calls,         \* number of shuffle and deal calls so far (bounded)
    \* ---- ch03_exercises.py: is_prime and primes_up_to
    pr_fn,            \* the function called last: "none", "is_prime", "primes_up_to"
    pr_n,             \* its argument
    pr_bool,          \* what is_prime returned
    pr_list,          \* what primes_up_to returned
    \* ---- ch03_exercises.py: one call of prime_factors
    pf_arg,           \* the argument n of the call
    pf_n,             \* the local n
    pf_d,             \* the local d
    pf_factors,       \* the local factors
    pf_pc,            \* "outer", "inner", "tail", "done"; "idle" when not called
    \* ---- ch03_exercises.py: one call of compose(*functions)(x)
    co_functions,     \* the functions given to compose, by name
    co_x,             \* the argument of composed
    co_acc,           \* reduce's accumulator
    co_rest,          \* what reduce has still to take from reversed(functions)
    co_trace,         \* the functions called so far, in call order
    co_pc,            \* "reduce", "done"; "idle" when not called
    \* ---- ch03_exercises.py: the last call of calculate(expression)
    ca_expression,    \* the expression, a sequence of characters; <<>> before any call
    ca_a,             \* the integers and the operator the expression was written from
    ca_op,
    ca_b,
    ca_res            \* what the call returned or raised; floats are <<num, den>>

fileVars == <<script, pc, at, fs, created, handles, exc>>
mfVars == <<mf_pc, mf_files, mf_open, mf_f, mf_exc, mf_uses>>
deVars == <<de_i, de_out, de_status>>
pdsVars == <<pds_pc, pds_data, pds_exc, pds_log, pds_result>>
arVars == <<ar_fn, ar_a, ar_b, ar_res>>
scriptVars == <<fileVars, mfVars>>
errVars == <<deVars, pdsVars, arVars>>
mroVars == <<mro_self, mro_stack, mro_calls, mro_ret>>
itVars == <<it_start, it_end, cu_current, cu_end, cu_out, cu_stops,
            gen_pc, gen_current, gen_out, gen_stops>>
oopVars == <<mroVars, itVars>>
slVars == <<sl_items, sl_op>>
baVars == <<ba_balance, ba_transactions, ba_op>>
acVars == <<ac_raised, ac_ref, ac_copy, ac_mutations>>
dkVars == <<dk_cards, dk_dealt, dk_op, dk_calls>>
exVars == <<slVars, baVars, acVars, dkVars>>
prVars == <<pr_fn, pr_n, pr_bool, pr_list>>
pfVars == <<pf_arg, pf_n, pf_d, pf_factors, pf_pc>>
coVars == <<co_functions, co_x, co_acc, co_rest, co_trace, co_pc>>
caVars == <<ca_expression, ca_a, ca_op, ca_b, ca_res>>
ch03Vars == <<prVars, pfVars, coVars, caVars>>
vars == <<scriptVars, errVars, oopVars, exVars, ch03Vars>>

\* What the actions of one group of scripts leave unchanged.
restOfScripts == <<errVars, oopVars, exVars, ch03Vars>>
restOfErrors == <<scriptVars, oopVars, exVars, ch03Vars>>
restOfOop == <<scriptVars, errVars, exVars, ch03Vars>>
restOfExercises == <<scriptVars, errVars, oopVars, acVars, dkVars, ch03Vars>>
restOfAccount == <<scriptVars, errVars, oopVars, slVars, dkVars, ch03Vars>>
restOfDeck == <<scriptVars, errVars, oopVars, slVars, baVars, acVars, ch03Vars>>
restOfCh03 == <<scriptVars, errVars, oopVars, exVars>>
restOfPrimes == <<restOfCh03, pfVars, coVars, caVars>>
restOfFactors == <<restOfCh03, prVars, coVars, caVars>>
restOfCompose == <<restOfCh03, prVars, pfVars, caVars>>
restOfCalculate == <<restOfCh03, prVars, pfVars, coVars>>

----------------------------------------------------------------------------
(* Bounds *)

MaxUses == 2
MaxLen == 2
MaxArith == 3
MaxCount == 3
MaxStops == 2
MaxItems == 3
MaxValue == 3
MaxBalance == 3
MaxAmount == 3
MaxTransactions == 3
MaxMutations == 1
MaxHistory == 2
MaxSeed == 2
MaxDeal == 2
MaxDeckCalls == 3
MaxPrime == 50
MaxFactorArg == 84
MaxFunctions == 3
MaxX == 2
MaxOperand == 3

----------------------------------------------------------------------------
(***************************************************************************)
(* ch06_file_io.py and ch10_data.py: the file operations of each script,   *)
(* in program order.  A path is <<directory, name>>; a directory itself is *)
(* <<directory, "">>.  "temp_dir" is the directory mkdtemp returns,        *)
(* "systmp" the system temporary directory, "tmpdir" the directory of      *)
(* TemporaryDirectory.                                                     *)
(***************************************************************************)

Stmt(op, dir, name, mode) == [op |-> op, path |-> <<dir, name>>, mode |-> mode]

Ch06Program ==
    << Stmt("mkdtemp", "temp_dir", "", ""),                   \* line 17
       Stmt("open", "temp_dir", "sample.txt", "w"),           \* line 27
       Stmt("open", "temp_dir", "sample.txt", "r"),           \* line 35
       Stmt("open", "temp_dir", "sample.txt", "r"),           \* line 41
       Stmt("open", "temp_dir", "sample.txt", "a"),           \* line 46
       Stmt("write_text", "temp_dir", "pathlib_test.txt", ""),\* line 72
       Stmt("read_text", "temp_dir", "pathlib_test.txt", ""), \* line 73
       Stmt("open", "temp_dir", "data.json", "w"),            \* line 89
       Stmt("open", "temp_dir", "data.json", "r"),            \* line 94
       Stmt("open", "temp_dir", "people.csv", "w"),           \* line 114
       Stmt("open", "temp_dir", "people.csv", "r"),           \* line 122
       Stmt("open", "temp_dir", "binary.dat", "wb"),          \* line 135
       Stmt("open", "temp_dir", "binary.dat", "rb"),          \* line 139
       Stmt("NamedTemporaryFile", "systmp", "tmp.txt", "keep"),\* line 149, delete=False
       Stmt("TemporaryDirectory", "tmpdir", "", ""),          \* line 153
       Stmt("rmtree", "temp_dir", "", "") >>                  \* line 162

Ch10Program ==
    << Stmt("mkdtemp", "temp_dir", "", ""),                   \* line 20
       Stmt("open", "temp_dir", "data.json", "w"),            \* line 48
       Stmt("open", "temp_dir", "data.json", "r"),            \* line 51
       Stmt("open", "temp_dir", "people.csv", "w"),           \* line 80
       Stmt("open", "temp_dir", "people.csv", "r"),           \* line 87
       Stmt("rmtree", "temp_dir", "", "") >>                  \* line 217

Program == IF script = "ch06" THEN Ch06Program ELSE Ch10Program

Cur == Program[pc]

\* open(path, mode) creates the file unless the mode only reads.
Creates(mode) == mode \in {"w", "a", "wb"}

\* The parent directory of a path exists.
ParentExists(path) == path[1] = "systmp" \/ <<path[1], "">> \in fs

\* open(path, mode) raises instead of returning a file object.
OpenRaises(path, mode) ==
    IF Creates(mode) THEN ~ParentExists(path) ELSE path \notin fs

\* shutil.rmtree(dir): the directory and everything in it is removed.
Rmtree(files, dir) == {p \in files : p[1] # dir}

\* The next statement, or the end of the script.
Advance ==
    IF pc = Len(Program)
    THEN /\ at' = "done"
         /\ pc' = pc
    ELSE /\ at' = "stmt"
         /\ pc' = pc + 1

Abort == at' = "aborted" /\ pc' = pc

Running == at = "stmt"

\* tempfile.mkdtemp(): creates a directory that the caller must remove.
Mkdtemp ==
    /\ Running /\ Cur.op = "mkdtemp"
    /\ fs' = fs \cup {Cur.path}
    /\ created' = created \cup {Cur.path}
    /\ Advance
    /\ UNCHANGED <<script, handles, exc, mfVars, restOfScripts>>

\* `with open(path, mode) as f:` - the open() call.
WithOpen ==
    /\ Running /\ Cur.op = "open"
    /\ IF OpenRaises(Cur.path, Cur.mode)
       THEN /\ Abort
            /\ UNCHANGED <<fs, created, handles>>
       ELSE /\ at' = "body" /\ pc' = pc
            /\ handles' = handles \cup {Cur.path}
            /\ fs' = IF Creates(Cur.mode) THEN fs \cup {Cur.path} ELSE fs
            /\ created' = IF Creates(Cur.mode) THEN created \cup {Cur.path} ELSE created
    /\ UNCHANGED <<script, exc, mfVars, restOfScripts>>

\* `with tempfile.NamedTemporaryFile(mode="w", suffix=".txt", delete=False) as f:`
NamedTemporaryFileEnter ==
    /\ Running /\ Cur.op = "NamedTemporaryFile"
    /\ at' = "body" /\ pc' = pc
    /\ handles' = handles \cup {Cur.path}
    /\ fs' = fs \cup {Cur.path}
    /\ created' = created \cup {Cur.path}
    /\ UNCHANGED <<script, exc, mfVars, restOfScripts>>

\* `with tempfile.TemporaryDirectory() as tmpdir:`
TemporaryDirectoryEnter ==
    /\ Running /\ Cur.op = "TemporaryDirectory"
    /\ at' = "body" /\ pc' = pc
    /\ fs' = fs \cup {Cur.path}
    /\ created' = created \cup {Cur.path}
    /\ UNCHANGED <<script, handles, exc, mfVars, restOfScripts>>

\* The body of a with-block: it completes, or an I/O call in it raises.
WithBody ==
    /\ at = "body"
    /\ \E e \in {"none", "OSError"} : exc' = e
    /\ at' = "exit" /\ pc' = pc
    /\ UNCHANGED <<script, fs, created, handles, mfVars, restOfScripts>>

\* What leaving a with-block does to the open file objects: the file
\* object's __exit__ closes it, whether or not the body raised.
ExitHandles(stmt, e) ==
    IF stmt.op \in {"open", "NamedTemporaryFile"}
    THEN handles \ {stmt.path} ELSE handles

\* What leaving a with-block does to the disk: TemporaryDirectory removes
\* its directory; NamedTemporaryFile removes its file unless delete=False.
ExitFiles(stmt) ==
    CASE stmt.op = "TemporaryDirectory" -> Rmtree(fs, stmt.path[1])
      [] stmt.op = "NamedTemporaryFile" /\ stmt.mode # "keep" -> fs \ {stmt.path}
      [] OTHER -> fs

\* Leaving the with-block: __exit__ runs, then the exception (if any)
\* propagates and ends the script.
WithExit ==
    /\ at = "exit"
    /\ handles' = ExitHandles(Cur, exc)
    /\ fs' = ExitFiles(Cur)
    /\ exc' = "none"
    /\ IF exc = "none" THEN Advance ELSE Abort
    /\ UNCHANGED <<script, created, mfVars, restOfScripts>>

\* Path.write_text(data): opens, writes and closes inside the call.
WriteText ==
    /\ Running /\ Cur.op = "write_text"
    /\ IF OpenRaises(Cur.path, "w")
       THEN Abort /\ UNCHANGED <<fs, created>>
       ELSE /\ fs' = fs \cup {Cur.path}
            /\ created' = created \cup {Cur.path}
            /\ Advance
    /\ UNCHANGED <<script, handles, exc, mfVars, restOfScripts>>

\* Path.read_text(): opens, reads and closes inside the call.
ReadText ==
    /\ Running /\ Cur.op = "read_text"
    /\ IF OpenRaises(Cur.path, "r") THEN Abort ELSE Advance
    /\ UNCHANGED <<script, fs, created, handles, exc, mfVars, restOfScripts>>

\* shutil.rmtree(temp_dir)
RmtreeStep ==
    /\ Running /\ Cur.op = "rmtree"
    /\ IF Cur.path \notin fs
       THEN Abort /\ UNCHANGED fs
       ELSE fs' = Rmtree(fs, Cur.path[1]) /\ Advance
    /\ UNCHANGED <<script, created, handles, exc, mfVars, restOfScripts>>

FileInit ==
    /\ script \in {"ch06", "ch10"}
    /\ pc = 1
    /\ at = "stmt"
    /\ fs = {}
    /\ created = {}
    /\ handles = {}
    /\ exc = "none"

FileNext ==
    \/ Mkdtemp
    \/ WithOpen
    \/ NamedTemporaryFileEnter
    \/ TemporaryDirectoryEnter
    \/ WithBody
    \/ WithExit
    \/ WriteText
    \/ ReadText
    \/ RmtreeStep

----------------------------------------------------------------------------
(***************************************************************************)
(* ch09_decorators.py, managed_file: a @contextmanager generator,          *)
(*     f = open(path, mode); try: yield f; finally: f.close()              *)
(* used as `with managed_file(path, mode) as f: body`.                     *)
(***************************************************************************)

MfPaths == {"a.txt", "b.txt"}
MfModes == {"r", "w", "a"}
MfErrors == {"ValueError", "KeyboardInterrupt"}

\* __enter__: the generator runs to its yield; open() may raise first.
MfEnter ==
    /\ mf_pc = "idle" /\ mf_uses < MaxUses
    /\ \E path \in MfPaths, mode \in MfModes :
         IF mode = "r" /\ path \notin mf_files
         THEN /\ mf_pc' = "done"
              /\ mf_exc' = "FileNotFoundError"
              /\ UNCHANGED <<mf_files, mf_open, mf_f>>
         ELSE /\ mf_pc' = "yielded"
              /\ mf_f' = path
              /\ mf_open' = mf_open \cup {path}
              /\ mf_files' = mf_files \cup {path}
              /\ mf_exc' = "none"
    /\ UNCHANGED <<mf_uses, fileVars, restOfScripts>>

\* The body of the with-block: completes or raises; __exit__ resumes the
\* generator (next) or throws the exception into it at the yield.
MfBody ==
    /\ mf_pc = "yielded"
    /\ \E e \in {"none"} \cup MfErrors : mf_exc' = e
    /\ mf_pc' = "finally"
    /\ UNCHANGED <<mf_files, mf_open, mf_f, mf_uses, fileVars, restOfScripts>>

\* The finally clause: f.close(), on both ways out of the try.
MfCloseMutant(open, f, e) == IF e = "none" THEN open \ {f} ELSE open
MfClose(open, f, e) == open \ {f}

MfFinally ==
    /\ mf_pc = "finally"
    /\ mf_open' = MfClose(mf_open, mf_f, mf_exc)
    /\ mf_pc' = "done"
    /\ UNCHANGED <<mf_files, mf_f, mf_exc, mf_uses, fileVars, restOfScripts>>

\* The with-statement is over; the program goes on to another use.
MfAgain ==
    /\ mf_pc = "done"
    /\ mf_pc' = "idle"
    /\ mf_f' = "none"
    /\ mf_exc' = "none"
    /\ mf_uses' = mf_uses + 1
    /\ UNCHANGED <<mf_files, mf_open, fileVars, restOfScripts>>

MfInit ==
    /\ mf_pc = "idle"
    /\ mf_files \in SUBSET MfPaths
    /\ mf_open = {}
    /\ mf_f = "none"
    /\ mf_exc = "none"
    /\ mf_uses = 0

MfNext == MfEnter \/ MfBody \/ MfFinally \/ MfAgain

----------------------------------------------------------------------------

(***************************************************************************)
(* Python's exceptions and the built-in operations the error chapter uses. *)
(***************************************************************************)

\* The base class of each built-in exception class.
ExcParent ==
    [k \in {"ZeroDivisionError", "IndexError", "KeyError", "ValueError",
            "TypeError", "RuntimeError", "ArithmeticError", "LookupError",
            "Exception", "KeyboardInterrupt", "SystemExit", "BaseException"} |->
        CASE k = "ZeroDivisionError" -> "ArithmeticError"
          [] k \in {"IndexError", "KeyError"} -> "LookupError"
          [] k \in {"ValueError", "TypeError", "RuntimeError",
                    "ArithmeticError", "LookupError"} -> "Exception"
          [] k \in {"Exception", "KeyboardInterrupt", "SystemExit"} -> "BaseException"
          [] OTHER -> "object"]

\* `except base:` catches an exception of class kind.
RECURSIVE Catches(_, _)
Catches(base, kind) ==
    IF kind = base THEN TRUE
    ELSE IF kind \notin DOMAIN ExcParent THEN FALSE
    ELSE Catches(base, ExcParent[kind])

\* The outcome of evaluating an expression: no exception, or its class.
Ok == "none"

\* a / b on ints
PyTrueDivRaises(a, b) == IF b = 0 THEN "ZeroDivisionError" ELSE Ok

\* lst[i] on a list (negative indexes count from the end)
PyListIndexMutant(lst, i) == IF Len(lst) = 0 THEN "IndexError" ELSE Ok
PyListIndexRaises(lst, i) ==
    IF i >= Len(lst) \/ i < -Len(lst) THEN "IndexError" ELSE Ok

\* d[key] on a dict (a function from keys to values)
PyDictGetRaises(d, key) == IF key \notin DOMAIN d THEN "KeyError" ELSE Ok

\* int(s) on a str, a sequence of characters: an optional sign and digits
Digits == {"0", "1", "2", "3", "4", "5", "6", "7", "8", "9"}
PyIntRaises(s) ==
    LET body == IF Len(s) > 0 /\ s[1] \in {"+", "-"} THEN Tail(s) ELSE s
    IN  IF Len(body) > 0 /\ \A i \in 1..Len(body) : body[i] \in Digits
        THEN Ok ELSE "ValueError"

\* x + y, by the types of the operands
PyAddRaises(tx, ty) ==
    IF tx = ty \/ {tx, ty} \subseteq {"int", "float"} THEN Ok ELSE "TypeError"

\* len(x): by the type of x; an object's __len__ may itself raise
PyLenRaises(x) ==
    CASE x.t \in {"dict", "list", "str"} -> Ok
      [] x.t = "object" -> x.raises
      [] OTHER -> "TypeError"

----------------------------------------------------------------------------
(***************************************************************************)
(* ch07_errors.py, demonstrate_exceptions: a loop over five               *)
(* (name, lambda) pairs; each lambda is called inside try/except Exception *)
(* and the handler prints one line.                                        *)
(***************************************************************************)

\* What calling the i-th lambda of `exceptions` raises (lines 23-27).
ThunkRaises(i) ==
    CASE i = 1 -> PyTrueDivRaises(1, 0)
      [] i = 2 -> PyListIndexRaises(<<1, 2, 3>>, 10)
      [] i = 3 -> PyDictGetRaises(<<>>, "missing")
      [] i = 4 -> PyIntRaises(<<"a", "b", "c">>)
      [] i = 5 -> PyAddRaises("str", "int")

ExceptionNames ==
    <<"ZeroDivisionError", "IndexError", "KeyError", "ValueError", "TypeError">>

\* One iteration of the for loop: try: func() except Exception as e: print
DemoIteration ==
    /\ de_status = "running" /\ de_i <= Len(ExceptionNames)
    /\ LET e == ThunkRaises(de_i) IN
         IF e = Ok
         THEN /\ de_i' = de_i + 1
              /\ UNCHANGED <<de_out, de_status>>
         ELSE IF Catches("Exception", e)
         THEN /\ de_out' = Append(de_out, <<ExceptionNames[de_i], e>>)
              /\ de_i' = de_i + 1
              /\ UNCHANGED de_status
         ELSE /\ de_status' = "raised"
              /\ UNCHANGED <<de_i, de_out>>
    /\ UNCHANGED <<pdsVars, arVars, restOfErrors>>

\* The loop is exhausted: the function returns None.
DemoReturn ==
    /\ de_status = "running" /\ de_i > Len(ExceptionNames)
    /\ de_status' = "returned"
    /\ UNCHANGED <<de_i, de_out, pdsVars, arVars, restOfErrors>>

DemoInit ==
    /\ de_i = 1
    /\ de_out = <<>>
    /\ de_status = "running"

----------------------------------------------------------------------------
(***************************************************************************)
(* ch07_errors.py, process_data_safely(data)                               *)
(***************************************************************************)

NoResult == [processed |-> FALSE, count |-> -1]

\* The arguments tried: None, containers of every size up to MaxLen, a
\* value without a length, and objects whose __len__ raises.
PdsInputs ==
    {[t |-> "None", n |-> 0, raises |-> Ok]}
    \cup {[t |-> c, n |-> n, raises |-> Ok] : c \in {"dict", "list"}, n \in 0..MaxLen}
    \cup {[t |-> "int", n |-> 0, raises |-> Ok]}
    \cup {[t |-> "object", n |-> 0, raises |-> k] :
            k \in {"TypeError", "RuntimeError", "ValueError", "KeyboardInterrupt"}}

PdsCall ==
    /\ pds_pc = "idle"
    /\ \E d \in PdsInputs : pds_data' = d
    /\ pds_pc' = "check"
    /\ pds_exc' = Ok
    /\ pds_log' = <<>>
    /\ pds_result' = NoResult
    /\ UNCHANGED <<deVars, arVars, restOfErrors>>

\* if data is None: raise ValueError("Data cannot be None")
PdsCheckNone ==
    /\ pds_pc = "check"
    /\ IF pds_data.t = "None"
       THEN pds_exc' = "ValueError" /\ pds_pc' = "raised"
       ELSE pds_exc' = Ok /\ pds_pc' = "try"
    /\ UNCHANGED <<pds_data, pds_log, pds_result, deVars, arVars, restOfErrors>>

\* try: result = {"processed": True, "count": len(data)}; return result
PdsTry ==
    /\ pds_pc = "try"
    /\ LET e == PyLenRaises(pds_data) IN
         IF e = Ok
         THEN /\ pds_result' = [processed |-> TRUE, count |-> pds_data.n]
              /\ pds_pc' = "returned"
              /\ UNCHANGED pds_exc
         ELSE /\ pds_exc' = e
              /\ pds_pc' = "except"
              /\ UNCHANGED pds_result
    /\ UNCHANGED <<pds_data, pds_log, deVars, arVars, restOfErrors>>

\* The except clauses, tried in order; each logs and re-raises.  An
\* exception no clause matches propagates at once.
PdsHandlerLogMutant(e) ==
    IF Catches("TypeError", e) THEN <<>>
    ELSE IF Catches("Exception", e) THEN <<<<"ERROR+traceback", e>>>>
    ELSE <<>>
PdsHandlerLog(e) ==
    IF Catches("TypeError", e) THEN <<<<"ERROR", e>>>>
    ELSE IF Catches("Exception", e) THEN <<<<"ERROR+traceback", e>>>>
    ELSE <<>>

PdsExcept ==
    /\ pds_pc = "except"
    /\ pds_log' = pds_log \o PdsHandlerLog(pds_exc)
    /\ pds_pc' = "raised"
    /\ UNCHANGED <<pds_data, pds_exc, pds_result, deVars, arVars, restOfErrors>>

\* The caller goes on to its next call.
PdsAgain ==
    /\ pds_pc \in {"returned", "raised"}
    /\ pds_pc' = "idle"
    /\ UNCHANGED <<pds_data, pds_exc, pds_log, pds_result, deVars, arVars, restOfErrors>>

PdsInit ==
    /\ pds_pc = "idle"
    /\ pds_data = [t |-> "None", n |-> 0, raises |-> Ok]
    /\ pds_exc = Ok
    /\ pds_log = <<>>
    /\ pds_result = NoResult

----------------------------------------------------------------------------
(***************************************************************************)
(* ch11_testing.py: add(a, b) and divide(a, b).  The float a / b is        *)
(* modelled as the exact fraction in lowest terms, <<numerator,            *)
(* denominator>> with a positive denominator; an int n is <<n, 1>>.        *)
(***************************************************************************)

ArithInts == (-MaxArith..MaxArith) \cup {10}

Abs(n) == IF n < 0 THEN -n ELSE n

RECURSIVE Gcd(_, _)
Gcd(m, n) == IF n = 0 THEN m ELSE Gcd(n, m % n)

\* a / b for b # 0
PyTrueDiv(a, b) ==
    LET g == Gcd(Abs(a), Abs(b))
        s == IF b < 0 THEN -1 ELSE 1
    IN  <<(s * a) \div g, (s * b) \div g>>

Returned(v) == [raised |-> FALSE, exc |-> Ok, msg |-> "", val |-> v]
Raised(e, m) == [raised |-> TRUE, exc |-> e, msg |-> m, val |-> <<0, 1>>]

\* def add(a, b): return a + b
Add(a, b) == Returned(<<a + b, 1>>)

\* def divide(a, b): if b == 0: raise ValueError(...); return a / b
DivideMutant(a, b) ==
    IF b < 0 THEN Raised("ValueError", "Cannot divide by zero")
    ELSE IF PyTrueDivRaises(a, b) # Ok THEN Raised(PyTrueDivRaises(a, b), "division by zero")
    ELSE Returned(PyTrueDiv(a, b))
Divide(a, b) ==
    IF b = 0 THEN Raised("ValueError", "Cannot divide by zero")
    ELSE IF PyTrueDivRaises(a, b) # Ok THEN Raised(PyTrueDivRaises(a, b), "division by zero")
    ELSE Returned(PyTrueDiv(a, b))

CallAdd ==
    /\ \E a \in ArithInts, b \in ArithInts :
         /\ ar_fn' = "add" /\ ar_a' = a /\ ar_b' = b
         /\ ar_res' = Add(a, b)
    /\ UNCHANGED <<deVars, pdsVars, restOfErrors>>

CallDivide ==
    /\ \E a \in ArithInts, b \in ArithInts :
         /\ ar_fn' = "divide" /\ ar_a' = a /\ ar_b' = b
         /\ ar_res' = Divide(a, b)
    /\ UNCHANGED <<deVars, pdsVars, restOfErrors>>

ArInit ==
    /\ ar_fn = "none"
    /\ ar_a = 0
    /\ ar_b = 0
    /\ ar_res = Returned(<<0, 1>>)

----------------------------------------------------------------------------
(***************************************************************************)
(* ch04_oop.py: the diamond A, B(A), C(A), D(B, C).  Python orders the     *)
(* classes of an instance by the C3 linearization of its class, and        *)
(* super().method() called in class X on an instance continues with the    *)
(* class after X in that order.                                            *)
(***************************************************************************)

Classes == {"A", "B", "C", "D"}

\* The bases of each class, as written in the class statement.
Bases ==
    [c \in Classes \cup {"object"} |->
        CASE c = "A" -> <<"object">>
          [] c = "B" -> <<"A">>
          [] c = "C" -> <<"A">>
          [] c = "D" -> <<"B", "C">>
          [] OTHER -> <<>>]

SeqElems(q) == {q[i] : i \in 1..Len(q)}

\* The C3 merge: repeatedly take the first head that is in no tail.
RECURSIVE C3Merge(_)
C3Merge(lists) ==
    LET live == SelectSeq(lists, LAMBDA l : Len(l) > 0)
        good(i) == \A j \in 1..Len(live) : live[i][1] \notin SeqElems(Tail(live[j]))
        cands == {i \in 1..Len(live) : good(i)}
    IN  IF Len(live) = 0 THEN <<>>
        ELSE IF cands = {} THEN <<"TypeError">>
        ELSE LET i == CHOOSE k \in cands : \A m \in cands : k <= m
                 h == live[i][1]
                 drop(l) == IF Len(l) > 0 /\ l[1] = h THEN Tail(l) ELSE l
             IN  <<h>> \o C3Merge([k \in 1..Len(live) |-> drop(live[k])])

\* cls.__mro__
RECURSIVE Mro(_)
Mro(c) ==
    LET bs == Bases[c]
    IN  <<c>> \o C3Merge([k \in 1..Len(bs) |-> Mro(bs[k])] \o <<bs>>)

\* The classes that define `method` (object does not).
DefinesMethod(c) == c \in Classes

\* The first class defining `method` in a sequence of classes.
FirstDefining(q) ==
    LET idx == {i \in 1..Len(q) : DefinesMethod(q[i])}
    IN  q[CHOOSE i \in idx : \A j \in idx : i <= j]

IndexOf(q, x) == CHOOSE i \in 1..Len(q) : q[i] = x

\* super().method() inside class cls, on an instance of class self
SuperTargetMutant(self, cls) == Bases[cls][1]
SuperTarget(self, cls) ==
    LET mro == Mro(self)
    IN  FirstDefining(SubSeq(mro, IndexOf(mro, cls) + 1, Len(mro)))

\* Whether the method of class cls calls super().method() (A's does not).
CallsSuper(cls) == cls # "A"

\* x = cls(); x.method(): the attribute lookup follows cls.__mro__.
MroCall ==
    /\ mro_self = "none"
    /\ \E c \in Classes :
         /\ mro_self' = c
         /\ mro_stack' = <<FirstDefining(Mro(c))>>
         /\ mro_calls' = <<FirstDefining(Mro(c))>>
    /\ UNCHANGED <<mro_ret, itVars, restOfOop>>

Top == mro_stack[Len(mro_stack)]

\* The executing method reaches its super().method() call.
MroSuper ==
    /\ mro_self # "none" /\ Len(mro_stack) > 0
    /\ mro_ret = ""
    /\ CallsSuper(Top)
    /\ LET next == SuperTarget(mro_self, Top) IN
         /\ mro_stack' = Append(mro_stack, next)
         /\ mro_calls' = Append(mro_calls, next)
    /\ UNCHANGED <<mro_self, mro_ret, itVars, restOfOop>>

\* The executing method returns: "A", or its own name, " -> " and the value
\* its super call returned.
MroReturn ==
    /\ mro_self # "none" /\ Len(mro_stack) > 0
    /\ CallsSuper(Top) => mro_ret # ""
    /\ mro_ret' = IF CallsSuper(Top) THEN Top \o " -> " \o mro_ret ELSE "A"
    /\ mro_stack' = SubSeq(mro_stack, 1, Len(mro_stack) - 1)
    /\ UNCHANGED <<mro_self, mro_calls, itVars, restOfOop>>

MroDone == mro_self # "none" /\ mro_stack = <<>>

MroInit ==
    /\ mro_self = "none"
    /\ mro_stack = <<>>
    /\ mro_calls = <<>>
    /\ mro_ret = ""

----------------------------------------------------------------------------
(***************************************************************************)
(* ch08_iterators.py: the iterator class CountUp and the generator         *)
(* function count_up, both created with the same (start, end).             *)
(***************************************************************************)

CountRange == (-1)..MaxCount

\* CountUp.__next__: its guard
CountUpExhaustedMutant(current, end) == current > end
CountUpExhausted(current, end) == current >= end

\* CountUp.__next__
CountUpNext ==
    /\ IF CountUpExhausted(cu_current, cu_end)
       THEN /\ cu_stops < MaxStops
            /\ cu_stops' = cu_stops + 1
            /\ UNCHANGED <<cu_current, cu_out>>
       ELSE /\ cu_out' = Append(cu_out, cu_current)
            /\ cu_current' = cu_current + 1
            /\ UNCHANGED cu_stops
    /\ UNCHANGED <<it_start, it_end, cu_end, gen_pc, gen_current, gen_out, gen_stops,
                   mroVars, restOfOop>>

\* next() on the generator count_up(start, end): run to the next yield or
\* to the end of the function.
GenNext ==
    /\ LET cur == CASE gen_pc = "created" -> it_start       \* current = start
                    [] gen_pc = "suspended" -> gen_current + 1  \* current += 1
                    [] OTHER -> gen_current
       IN  IF gen_pc # "finished" /\ cur < it_end
           THEN /\ gen_current' = cur
                /\ gen_out' = Append(gen_out, cur)
                /\ gen_pc' = "suspended"
                /\ UNCHANGED gen_stops
           ELSE /\ gen_stops < MaxStops
                /\ gen_stops' = gen_stops + 1
                /\ gen_current' = cur
                /\ gen_pc' = "finished"
                /\ UNCHANGED gen_out
    /\ UNCHANGED <<it_start, it_end, cu_current, cu_end, cu_out, cu_stops,
                   mroVars, restOfOop>>

ItInit ==
    /\ it_start \in CountRange
    /\ it_end \in CountRange
    /\ cu_current = it_start
    /\ cu_end = it_end
    /\ cu_out = <<>>
    /\ cu_stops = 0
    /\ gen_pc = "created"
    /\ gen_current = it_start
    /\ gen_out = <<>>
    /\ gen_stops = 0

ItIdle ==
    /\ it_start = 0 /\ it_end = 0 /\ cu_current = 0 /\ cu_end = 0
    /\ cu_out = <<>> /\ cu_stops = 0 /\ gen_pc = "created" /\ gen_current = 0
    /\ gen_out = <<>> /\ gen_stops = 0

----------------------------------------------------------------------------
(***************************************************************************)
(* ch04_exercises.py, show_solutions: SortedList, a list kept sorted with  *)
(* sorted(), bisect.insort and list.remove.                                *)
(***************************************************************************)

Values == 1..MaxValue

\* The lists of at most n values
ListsUpTo(n) == UNION {[1..k -> Values] : k \in 0..n}

InsertAt(a, i, x) == SubSeq(a, 1, i) \o <<x>> \o SubSeq(a, i + 1, Len(a))

\* bisect.bisect_right(a, x, lo, hi): binary search for the insertion point
\* after every entry equal to x (0-based lo and hi).
RECURSIVE BisectRight(_, _, _, _)
BisectRight(a, x, lo, hi) ==
    IF lo < hi
    THEN LET mid == (lo + hi) \div 2
         IN  IF x < a[mid + 1]
             THEN BisectRight(a, x, lo, mid)
             ELSE BisectRight(a, x, mid + 1, hi)
    ELSE lo

\* bisect.insort(a, x)
InsortMutant(a, x) == Append(a, x)
Insort(a, x) == InsertAt(a, BisectRight(a, x, 0, Len(a)), x)

\* sorted(items): a stable sort, here by insertion of each item in turn
RECURSIVE Sorted(_)
Sorted(items) ==
    IF Len(items) = 0 THEN <<>>
    ELSE Insort(Sorted(SubSeq(items, 1, Len(items) - 1)), items[Len(items)])

\* list.remove(x): the list without its first entry equal to x
ListRemoveMutant(a, x) == SelectSeq(a, LAMBDA y : y # x)
ListRemove(a, x) ==
    LET i == CHOOSE k \in 1..Len(a) : a[k] = x /\ \A j \in 1..(k - 1) : a[j] # x
    IN  SubSeq(a, 1, i - 1) \o SubSeq(a, i + 1, Len(a))

\* SortedList.__getitem__(index): list indexing, negative indexes from the end
SlGetItem(index) == IF index < 0 THEN sl_items[Len(sl_items) + index + 1]
                    ELSE sl_items[index + 1]

\* SortedList.__iter__: the items in list order
SlIter == sl_items

\* SortedList.__len__
SlLen == Len(sl_items)

\* SortedList.__init__(items): sorted(items) if items else []
SlConstruct(items) == IF Len(items) > 0 THEN Sorted(items) ELSE <<>>

\* SortedList.add(item)
SlAdd ==
    /\ Len(sl_items) < MaxItems
    /\ \E item \in Values :
         /\ sl_items' = Insort(sl_items, item)
         /\ sl_op' = [op |-> "add", item |-> item, before |-> sl_items, raised |-> FALSE]
    /\ UNCHANGED <<baVars, restOfExercises>>

\* SortedList.remove(item): list.remove raises ValueError when item is absent
SlRemove ==
    /\ \E item \in Values :
         IF \E k \in 1..Len(sl_items) : sl_items[k] = item
         THEN /\ sl_items' = ListRemove(sl_items, item)
              /\ sl_op' = [op |-> "remove", item |-> item, before |-> sl_items,
                           raised |-> FALSE]
         ELSE /\ sl_items' = sl_items
              /\ sl_op' = [op |-> "remove", item |-> item, before |-> sl_items,
                           raised |-> TRUE]
    /\ UNCHANGED <<baVars, restOfExercises>>

SlInit ==
    \E items \in ListsUpTo(MaxItems) :
        /\ sl_items = SlConstruct(items)
        /\ sl_op = [op |-> "init", item |-> 0, before |-> items, raised |-> FALSE]

SlIdle ==
    /\ sl_items = <<>>
    /\ sl_op = [op |-> "init", item |-> 0, before |-> <<>>, raised |-> FALSE]

----------------------------------------------------------------------------
(***************************************************************************)
(* ch04_exercises.py, show_solutions: BankAccount                          *)
(***************************************************************************)

Amounts == (-1)..MaxAmount

\* deposit: the amounts it refuses
DepositRefuses(amount) == amount <= 0

\* withdraw: the amounts it refuses
WithdrawRefusesMutant(amount, balance) == amount <= 0
WithdrawRefuses(amount, balance) == amount <= 0 \/ amount > balance

\* BankAccount.deposit(amount)
Deposit ==
    /\ Len(ba_transactions) < MaxTransactions
    /\ \E amount \in Amounts :
         IF DepositRefuses(amount)
         THEN /\ ba_op' = [op |-> "deposit", amount |-> amount,
                           before |-> ba_balance, ret |-> FALSE]
              /\ UNCHANGED <<ba_balance, ba_transactions>>
         ELSE /\ ba_balance' = ba_balance + amount
              /\ ba_transactions' = Append(ba_transactions, <<"Deposit", amount>>)
              /\ ba_op' = [op |-> "deposit", amount |-> amount,
                           before |-> ba_balance, ret |-> TRUE]
    /\ UNCHANGED <<slVars, restOfExercises>>

\* BankAccount.withdraw(amount)
Withdraw ==
    /\ Len(ba_transactions) < MaxTransactions
    /\ \E amount \in Amounts :
         IF WithdrawRefuses(amount, ba_balance)
         THEN /\ ba_transactions' =
                    Append(ba_transactions, <<"Failed withdrawal", amount>>)
              /\ ba_op' = [op |-> "withdraw", amount |-> amount,
                           before |-> ba_balance, ret |-> FALSE]
              /\ UNCHANGED ba_balance
         ELSE /\ ba_balance' = ba_balance - amount
              /\ ba_transactions' = Append(ba_transactions, <<"Withdrawal", amount>>)
              /\ ba_op' = [op |-> "withdraw", amount |-> amount,
                           before |-> ba_balance, ret |-> TRUE]
    /\ UNCHANGED <<slVars, restOfExercises>>

\* BankAccount(account_number, holder_name, initial_balance)
BaInit ==
    /\ ba_balance \in 0..MaxBalance
    /\ ba_transactions = <<>>
    /\ ba_op = [op |-> "init", amount |-> ba_balance, before |-> 0, ret |-> TRUE]

BaIdle ==
    /\ ba_balance = 0
    /\ ba_transactions = <<>>
    /\ ba_op = [op |-> "init", amount |-> 0, before |-> 0, ret |-> TRUE]

----------------------------------------------------------------------------
(***************************************************************************)
(* ch04_exercises.py, show_solutions: what a caller can do to a            *)
(* BankAccount besides deposit and withdraw: assign to the property        *)
(* `balance`, and mutate the list get_transaction_history returned.        *)
(***************************************************************************)

\* @property balance: only a getter is defined (lines 248-250).
BalanceHasSetter == FALSE

\* account.balance = value
AssignBalance ==
    /\ \E value \in Amounts :
         IF BalanceHasSetter
         THEN /\ ba_balance' = value
              /\ ac_raised' = "none"
         ELSE /\ ac_raised' = "AttributeError"
              /\ UNCHANGED ba_balance
    /\ UNCHANGED <<ba_transactions, ba_op, ac_ref, ac_copy, ac_mutations, restOfAccount>>

\* get_transaction_history: return self._transactions.copy()
HistoryRefMutant == "internal"
HistoryRef == "copy"

GetHistory ==
    /\ ac_ref' = HistoryRef
    /\ ac_copy' = IF HistoryRef = "copy" THEN ba_transactions ELSE <<>>
    /\ UNCHANGED <<baVars, ac_raised, ac_mutations, restOfAccount>>

\* The list an expression `history` denotes, for the caller holding ac_ref.
ReturnedList == IF ac_ref = "internal" THEN ba_transactions ELSE ac_copy

\* history.append(entry) or history.clear() on the returned list: the object
\* mutated is the one the reference denotes.
MutateReturned ==
    /\ ac_ref # "none" /\ ac_mutations < MaxMutations
    /\ \E how \in {"append", "clear"} :
         LET new == IF how = "append"
                    THEN Append(ReturnedList, <<"Forged", 0>>)
                    ELSE <<>>
         IN  IF ac_ref = "internal"
             THEN ba_transactions' = new /\ UNCHANGED ac_copy
             ELSE ac_copy' = new /\ UNCHANGED ba_transactions
    /\ ac_mutations' = ac_mutations + 1
    /\ UNCHANGED <<ba_balance, ba_op, ac_raised, ac_ref, restOfAccount>>

\* account.deposit(amount) and account.withdraw(amount), while the history is
\* short enough for the caller's copies of it to be enumerated
AccountDeposit == Len(ba_transactions) < MaxHistory /\ Deposit
AccountWithdraw == Len(ba_transactions) < MaxHistory /\ Withdraw

AcIdle ==
    /\ ac_raised = "none"
    /\ ac_ref = "none"
    /\ ac_copy = <<>>
    /\ ac_mutations = 0

----------------------------------------------------------------------------
(***************************************************************************)
(* ch04_exercises.py, show_solutions: Card and Deck                        *)
(***************************************************************************)

SUITS == <<"Hearts", "Diamonds", "Clubs", "Spades">>
RANKS == <<"2", "3", "4", "5", "6", "7", "8", "9", "10", "J", "Q", "K", "A">>

\* [Card(suit, rank) for suit in SUITS for rank in RANKS]
FullDeck ==
    [k \in 1..(Len(SUITS) * Len(RANKS)) |->
        <<SUITS[((k - 1) \div Len(RANKS)) + 1], RANKS[((k - 1) % Len(RANKS)) + 1]>>]

\* Deck.__post_init__: an empty cards list is replaced by the full deck
DeckPostInit(cards) == IF Len(cards) = 0 THEN FullDeck ELSE cards

\* The position a slice bound n denotes in a list of the given length
\* (negative bounds count from the end; all are clipped to the list).
SliceBound(n, len) ==
    IF n < 0 THEN (IF len + n < 0 THEN 0 ELSE len + n)
    ELSE IF n > len THEN len ELSE n

\* cards[:n]
SliceTo(cards, n) == SubSeq(cards, 1, SliceBound(n, Len(cards)))

\* cards[n:]
SliceFromMutant(cards, n) == SubSeq(cards, SliceBound(n + 1, Len(cards)) + 1, Len(cards))
SliceFrom(cards, n) == SubSeq(cards, SliceBound(n, Len(cards)) + 1, Len(cards))

\* The random integers shuffle draws: randbelow(i + 1), here taken from one
\* of a few fixed streams, selected by seed.
Seeds == 0..MaxSeed
RandBelow(seed, i) == (seed * i) % (i + 1)

Swap(x, i, j) == [x EXCEPT ![i] = x[j], ![j] = x[i]]

\* random.shuffle(x): for i in reversed(range(1, len(x))):
\*     j = randbelow(i + 1); x[i], x[j] = x[j], x[i]      (0-based i, j)
RECURSIVE ShuffleFrom(_, _, _)
ShuffleFrom(x, i, seed) ==
    IF i < 1 THEN x
    ELSE ShuffleFrom(Swap(x, i + 1, RandBelow(seed, i) + 1), i - 1, seed)

Shuffle(x, seed) == ShuffleFrom(x, Len(x) - 1, seed)

\* The arguments given to deal: small ones, the 5 of the script, and more
\* than a whole deck.
DealSizes == (0..MaxDeal) \cup {5, Len(FullDeck) + 1}

\* Deck.shuffle()
DeckShuffle ==
    /\ dk_calls < MaxDeckCalls
    /\ \E seed \in Seeds :
         /\ dk_cards' = Shuffle(dk_cards, seed)
         /\ dk_op' = [op |-> "shuffle", n |-> 0, before |-> dk_cards, ret |-> <<>>]
    /\ dk_calls' = dk_calls + 1
    /\ UNCHANGED <<dk_dealt, restOfDeck>>

\* Deck.deal(n)
DeckDeal ==
    /\ dk_calls < MaxDeckCalls
    /\ \E n \in DealSizes :
         LET dealt == SliceTo(dk_cards, n) IN
         /\ dk_cards' = SliceFrom(dk_cards, n)
         /\ dk_dealt' = dk_dealt \o dealt
         /\ dk_op' = [op |-> "deal", n |-> n, before |-> dk_cards, ret |-> dealt]
    /\ dk_calls' = dk_calls + 1
    /\ UNCHANGED restOfDeck

\* deck = Deck()
DkInit ==
    /\ dk_cards = DeckPostInit(<<>>)
    /\ dk_dealt = <<>>
    /\ dk_op = [op |-> "init", n |-> 0, before |-> <<>>, ret |-> <<>>]
    /\ dk_calls = 0

DkIdle ==
    /\ dk_cards = <<>>
    /\ dk_dealt = <<>>
    /\ dk_op = [op |-> "none", n |-> 0, before |-> <<>>, ret |-> <<>>]
    /\ dk_calls = 0

----------------------------------------------------------------------------
(***************************************************************************)
(* ch03_exercises.py, show_solutions: is_prime and primes_up_to            *)
(***************************************************************************)

PrimeArgs == (-2)..MaxPrime

\* int(n ** 0.5) for n >= 0: the integer part of the square root
RECURSIVE SqrtFrom(_, _)
SqrtFrom(n, r) == IF (r + 1) * (r + 1) > n THEN r ELSE SqrtFrom(n, r + 1)
IntSqrt(n) == SqrtFrom(n, 0)

\* range(3, int(n ** 0.5) + 1, 2): its end
TrialEndMutant(n) == IntSqrt(n)
TrialEnd(n) == IntSqrt(n) + 1

\* for i in range(i, end, 2): if n % i == 0: return False
RECURSIVE HasOddDivisor(_, _, _)
HasOddDivisor(n, i, end) ==
    IF i >= end THEN FALSE
    ELSE IF n % i = 0 THEN TRUE
    ELSE HasOddDivisor(n, i + 2, end)

is_prime(n) ==
    IF n < 2 THEN FALSE
    ELSE IF n = 2 THEN TRUE
    ELSE IF n % 2 = 0 THEN FALSE
    ELSE ~HasOddDivisor(n, 3, TrialEnd(n))

\* list(range(lo, hi))
Range(lo, hi) == IF hi <= lo THEN <<>> ELSE [k \in 1..(hi - lo) |-> lo + k - 1]

\* [i for i in range(2, n + 1) if is_prime(i)]
primes_up_to(n) == SelectSeq(Range(2, n + 1), LAMBDA i : is_prime(i))

CallIsPrime ==
    /\ \E n \in PrimeArgs :
         /\ pr_fn' = "is_prime"
         /\ pr_n' = n
         /\ pr_bool' = is_prime(n)
    /\ UNCHANGED <<pr_list, restOfPrimes>>

CallPrimesUpTo ==
    /\ \E n \in PrimeArgs :
         /\ pr_fn' = "primes_up_to"
         /\ pr_n' = n
         /\ pr_list' = primes_up_to(n)
    /\ UNCHANGED <<pr_bool, restOfPrimes>>

PrInit ==
    /\ pr_fn = "none"
    /\ pr_n = 0
    /\ pr_bool = FALSE
    /\ pr_list = <<>>

----------------------------------------------------------------------------
(***************************************************************************)
(* ch03_exercises.py, show_solutions: prime_factors, one step per loop     *)
(* test                                                                    *)
(***************************************************************************)

FactorArgs == 2..MaxFactorArg

\* while d * d <= n:
OuterGuardMutant(d, n) == d * d < n
OuterGuard(d, n) == d * d <= n

PfWhileOuter ==
    /\ pf_pc = "outer"
    /\ pf_pc' = IF OuterGuard(pf_d, pf_n) THEN "inner" ELSE "tail"
    /\ UNCHANGED <<pf_arg, pf_n, pf_d, pf_factors, restOfFactors>>

\* while n % d == 0: factors.append(d); n //= d
\* and, when the test fails, d += 1
PfWhileInner ==
    /\ pf_pc = "inner"
    /\ IF pf_n % pf_d = 0
       THEN /\ pf_factors' = Append(pf_factors, pf_d)
            /\ pf_n' = pf_n \div pf_d
            /\ UNCHANGED <<pf_d, pf_pc>>
       ELSE /\ pf_d' = pf_d + 1
            /\ pf_pc' = "outer"
            /\ UNCHANGED <<pf_n, pf_factors>>
    /\ UNCHANGED <<pf_arg, restOfFactors>>

\* if n > 1: factors.append(n)
\* return factors
PfReturn ==
    /\ pf_pc = "tail"
    /\ pf_factors' = IF pf_n > 1 THEN Append(pf_factors, pf_n) ELSE pf_factors
    /\ pf_pc' = "done"
    /\ UNCHANGED <<pf_arg, pf_n, pf_d, restOfFactors>>

\* prime_factors(n): factors = []; d = 2
PfInit ==
    /\ pf_arg \in FactorArgs
    /\ pf_n = pf_arg
    /\ pf_d = 2
    /\ pf_factors = <<>>
    /\ pf_pc = "outer"

PfIdle ==
    /\ pf_arg = 0
    /\ pf_n = 0
    /\ pf_d = 0
    /\ pf_factors = <<>>
    /\ pf_pc = "idle"

----------------------------------------------------------------------------
(***************************************************************************)
(* ch03_exercises.py, show_solutions: compose, one step per function       *)
(* reduce calls                                                            *)
(***************************************************************************)

FunctionNames == {"add_one", "double", "square"}

\* add_one = lambda x: x + 1; double = lambda x: x * 2; square = lambda x: x ** 2
add_one(x) == x + 1
double(x) == x * 2
square(x) == x * x

\* f(acc) for the function named f
Call(f, acc) ==
    CASE f = "add_one" -> add_one(acc)
      [] f = "double" -> double(acc)
      [] f = "square" -> square(acc)

\* The argument lists of compose, and the arguments of the composed function
\* (the 3 of the script among them).
FunctionLists == UNION {[1..n -> FunctionNames] : n \in 0..MaxFunctions}
XValues == (0..MaxX) \cup {3}

\* reversed(functions)
ReversedMutant(functions) == functions
Reversed(functions) ==
    [i \in 1..Len(functions) |-> functions[Len(functions) + 1 - i]]

\* reduce(lambda acc, f: f(acc), ..., x): the next f
ComposedStep ==
    /\ co_pc = "reduce"
    /\ co_rest # <<>>
    /\ co_acc' = Call(Head(co_rest), co_acc)
    /\ co_rest' = Tail(co_rest)
    /\ co_trace' = Append(co_trace, Head(co_rest))
    /\ UNCHANGED <<co_functions, co_x, co_pc, restOfCompose>>

\* reduce returns the accumulator when the iterator is exhausted
ComposedReturn ==
    /\ co_pc = "reduce"
    /\ co_rest = <<>>
    /\ co_pc' = "done"
    /\ UNCHANGED <<co_functions, co_x, co_acc, co_rest, co_trace, restOfCompose>>

\* compose(*functions)(x): reduce starts with x over reversed(functions)
CoInit ==
    /\ co_functions \in FunctionLists
    /\ co_x \in XValues
    /\ co_acc = co_x
    /\ co_rest = Reversed(co_functions)
    /\ co_trace = <<>>
    /\ co_pc = "reduce"

CoIdle ==
    /\ co_functions = <<>>
    /\ co_x = 0
    /\ co_acc = 0
    /\ co_rest = <<>>
    /\ co_trace = <<>>
    /\ co_pc = "idle"

----------------------------------------------------------------------------
(***************************************************************************)
(* ch03_exercises.py, show_solutions: calculate.  An expression is a       *)
(* sequence of characters; a float is written as the fraction <<num, den>> *)
(* in lowest terms, den > 0, that it is or is the nearest float to.        *)
(***************************************************************************)

\* str(n) for an integer n, as characters
DigitChars == <<"0", "1", "2", "3", "4", "5", "6", "7", "8", "9">>

RECURSIVE NatChars(_)
NatChars(n) ==
    IF n < 10 THEN <<DigitChars[n + 1]>>
    ELSE NatChars(n \div 10) \o <<DigitChars[(n % 10) + 1]>>

IntChars(n) == IF n < 0 THEN <<"-">> \o NatChars(-n) ELSE NatChars(n)

\* expression.split(): the maximal runs of non-blank characters
RECURSIVE SplitFrom(_, _, _)
SplitFrom(chars, word, parts) ==
    IF chars = <<>>
    THEN (IF word = <<>> THEN parts ELSE Append(parts, word))
    ELSE IF Head(chars) = " "
    THEN SplitFrom(Tail(chars), <<>>, IF word = <<>> THEN parts ELSE Append(parts, word))
    ELSE SplitFrom(Tail(chars), Append(word, Head(chars)), parts)

Split(chars) == SplitFrom(chars, <<>>, <<>>)

\* The string a sequence of characters spells
RECURSIVE Spell(_)
Spell(chars) == IF chars = <<>> THEN "" ELSE Head(chars) \o Spell(Tail(chars))

\* The value of a run of decimal digits
RECURSIVE DigitsValue(_, _)
DigitsValue(chars, acc) ==
    IF chars = <<>> THEN acc
    ELSE DigitsValue(Tail(chars),
                     10 * acc + (CHOOSE d \in 0..9 : DigitChars[d + 1] = Head(chars)))

\* float(part) for a part made of the characters of integers and operators:
\* an optional sign and digits, or else ValueError
Float(part) ==
    IF PyIntRaises(part) # Ok
    THEN Raised("ValueError", "could not convert string to float")
    ELSE LET neg  == part[1] = "-"
             body == IF part[1] \in {"+", "-"} THEN Tail(part) ELSE part
             v    == DigitsValue(body, 0)
         IN  Returned(<<IF neg THEN -v ELSE v, 1>>)

\* The quotient n / d rounded down, for d # 0
FloorQuotientMutant(n, d) ==
    IF (n < 0) = (d < 0) THEN Abs(n) \div Abs(d) ELSE -(Abs(n) \div Abs(d))
FloorQuotient(n, d) ==
    LET q == Abs(n) \div Abs(d)
    IN  IF (n < 0) = (d < 0) \/ n = 0 THEN q
        ELSE IF q * Abs(d) = Abs(n) THEN -q ELSE -(q + 1)

\* The largest binary exponent of a float: 2.0 ** 1024 is out of range
DblMaxExp == 1024

\* The largest k with 2 ** k <= n, for n >= 1
RECURSIVE FloorLog2(_)
FloorLog2(n) == IF n < 2 THEN 0 ELSE 1 + FloorLog2(n \div 2)

RECURSIVE IntPow(_, _)
IntPow(a, k) == IF k = 0 THEN 1 ELSE a * IntPow(a, k - 1)

\* float arithmetic on x = <<xn, xd>> and y = <<yn, yd>>
FloatAdd(x, y) == Returned(PyTrueDiv(x[1] * y[2] + y[1] * x[2], x[2] * y[2]))
FloatSub(x, y) == Returned(PyTrueDiv(x[1] * y[2] - y[1] * x[2], x[2] * y[2]))
FloatMul(x, y) == Returned(PyTrueDiv(x[1] * y[1], x[2] * y[2]))

FloatTrueDiv(x, y) ==
    IF y[1] = 0 THEN Raised("ZeroDivisionError", "float division by zero")
    ELSE Returned(PyTrueDiv(x[1] * y[2], x[2] * y[1]))

FloatFloorDiv(x, y) ==
    IF y[1] = 0 THEN Raised("ZeroDivisionError", "float floor division by zero")
    ELSE Returned(<<FloorQuotient(x[1] * y[2], x[2] * y[1]), 1>>)

\* x % y == x - y * floor(x / y)
FloatMod(x, y) ==
    IF y[1] = 0 THEN Raised("ZeroDivisionError", "float modulo by zero")
    ELSE LET q == FloorQuotient(x[1] * y[2], x[2] * y[1])
         IN  Returned(PyTrueDiv(x[1] * y[2] - q * y[1] * x[2], x[2] * y[2]))

\* x ** y for an integral x and y: 0.0 to a negative power and a result of
\* magnitude 2 ** 1024 or more raise
FloatPow(x, y) ==
    LET a == x[1]
        k == y[1]
    IN  IF k < 0 /\ a = 0
        THEN Raised("ZeroDivisionError", "0.0 cannot be raised to a negative power")
        ELSE IF k > 0 /\ Abs(a) >= 2 /\ k * FloorLog2(Abs(a)) >= DblMaxExp
        THEN Raised("OverflowError", "Numerical result out of range")
        ELSE IF k >= 0 THEN Returned(<<IntPow(a, k), 1>>)
        ELSE Returned(PyTrueDiv(1, IntPow(a, -k)))

\* ops = {'+': ..., '-': ..., '*': ..., '/': ..., '**': ..., '//': ..., '%': ...}
OpKeys == {"+", "-", "*", "/", "**", "//", "%"}
ops(op, x, y) ==
    CASE op = "+" -> FloatAdd(x, y)
      [] op = "-" -> FloatSub(x, y)
      [] op = "*" -> FloatMul(x, y)
      [] op = "/" -> FloatTrueDiv(x, y)
      [] op = "**" -> FloatPow(x, y)
      [] op = "//" -> FloatFloorDiv(x, y)
      [] op = "%" -> FloatMod(x, y)

\* ops[op](a, b)
Lookup(op, x, y) ==
    IF op \notin OpKeys THEN Raised("KeyError", op) ELSE ops(op, x, y)

\* def calculate(expression)
calculate(expression) ==
    LET parts == Split(expression)
        out   == Raised("IndexError", "list index out of range")
    IN  IF Len(parts) < 1 THEN out
        ELSE LET a == Float(parts[1])
             IN  IF a.raised THEN a
                 ELSE IF Len(parts) < 2 THEN out
                 ELSE IF Len(parts) = 4
                 THEN LET b == Float(parts[4])
                      IN  IF b.raised THEN b
                          ELSE Lookup(Spell(parts[2]) \o Spell(parts[3]), a.val, b.val)
                 ELSE IF Len(parts) < 3 THEN out
                 ELSE LET b == Float(parts[3])
                      IN  IF b.raised THEN b
                          ELSE Lookup(Spell(parts[2]), a.val, b.val)

\* The characters of an operator; a two-character operator may also be
\* written with a blank between its characters ("2 * * 8")
OpChars(op, blank) ==
    CASE op = "+" -> <<"+">>
      [] op = "-" -> <<"-">>
      [] op = "*" -> <<"*">>
      [] op = "/" -> <<"/">>
      [] op = "%" -> <<"%">>
      [] op = "**" -> IF blank THEN <<"*", " ", "*">> ELSE <<"*", "*">>
      [] op = "//" -> IF blank THEN <<"/", " ", "/">> ELSE <<"/", "/">>

\* 'a op b'
Expression(a, op, b, blank) ==
    IntChars(a) \o <<" ">> \o OpChars(op, blank) \o <<" ">> \o IntChars(b)

\* The operands: the small integers, those of the exercise's examples, and a
\* power beyond the range of a float
ExampleOperands == {<<5, 3>>, <<10, 4>>, <<6, 7>>, <<15, 4>>, <<2, 8>>, <<17, 5>>}
Operands ==
    (((-MaxOperand)..MaxOperand) \X ((-MaxOperand)..MaxOperand))
        \cup ExampleOperands \cup {<<2, DblMaxExp>>}

CallCalculate ==
    /\ \E ab \in Operands, op \in OpKeys, blank \in BOOLEAN :
         /\ blank => op \in {"**", "//"}
         /\ ca_expression' = Expression(ab[1], op, ab[2], blank)
         /\ ca_a' = ab[1]
         /\ ca_op' = op
         /\ ca_b' = ab[2]
         /\ ca_res' = calculate(Expression(ab[1], op, ab[2], blank))
    /\ UNCHANGED restOfCalculate

CaInit ==
    /\ ca_expression = <<>>
    /\ ca_a = 0
    /\ ca_op = ""
    /\ ca_b = 0
    /\ ca_res = Returned(<<0, 1>>)

Ch03Idle == PrInit /\ PfIdle /\ CoIdle /\ CaInit

----------------------------------------------------------------------------
(* The specifications: one per group of scripts; the other groups idle. *)

FileIdle ==
    /\ script = "ch10" /\ pc = 1 /\ at = "stmt" /\ fs = {} /\ created = {}
    /\ handles = {} /\ exc = "none"
MfIdle ==
    /\ mf_pc = "idle" /\ mf_files = {} /\ mf_open = {} /\ mf_f = "none"
    /\ mf_exc = "none" /\ mf_uses = 0

\* The groups below, idle
LaterIdle == AcIdle /\ DkIdle /\ Ch03Idle
EarlierIdle ==
    FileIdle /\ MfIdle /\ DemoInit /\ PdsInit /\ ArInit /\ MroInit /\ ItIdle /\ SlIdle

\* ch06_file_io.py and ch10_data.py, and a program using managed_file
Init == FileInit /\ MfInit /\ DemoInit /\ PdsInit /\ ArInit /\ MroInit /\ ItIdle /\ SlIdle /\ BaIdle /\ LaterIdle
Next == FileNext \/ MfNext
Spec == Init /\ [][Next]_vars

\* ch07_errors.py
InitErrors == FileIdle /\ MfIdle /\ DemoInit /\ PdsInit /\ ArInit /\ MroInit /\ ItIdle /\ SlIdle /\ BaIdle /\ LaterIdle
NextErrors ==
    \/ DemoIteration \/ DemoReturn
    \/ PdsCall \/ PdsCheckNone \/ PdsTry \/ PdsExcept \/ PdsAgain
SpecErrors == InitErrors /\ [][NextErrors]_vars

\* ch11_testing.py
InitArith == FileIdle /\ MfIdle /\ DemoInit /\ PdsInit /\ ArInit /\ MroInit /\ ItIdle /\ SlIdle /\ BaIdle /\ LaterIdle
NextArith == CallAdd \/ CallDivide
SpecArith == InitArith /\ [][NextArith]_vars

\* ch04_oop.py (the diamond) and ch08_iterators.py (CountUp, count_up)
InitOop == FileIdle /\ MfIdle /\ DemoInit /\ PdsInit /\ ArInit /\ MroInit /\ ItInit /\ SlIdle /\ BaIdle /\ LaterIdle
NextOop == MroCall \/ MroSuper \/ MroReturn \/ CountUpNext \/ GenNext
SpecOop == InitOop /\ [][NextOop]_vars

MroIdle == MroInit

\* ch04_exercises.py: SortedList
InitSorted ==
    FileIdle /\ MfIdle /\ DemoInit /\ PdsInit /\ ArInit /\ MroIdle /\ ItIdle /\ SlInit /\ BaIdle /\ LaterIdle
NextSorted == SlAdd \/ SlRemove
SpecSorted == InitSorted /\ [][NextSorted]_vars

\* ch04_exercises.py: BankAccount
InitBank ==
    FileIdle /\ MfIdle /\ DemoInit /\ PdsInit /\ ArInit /\ MroIdle /\ ItIdle /\ SlIdle /\ BaInit /\ LaterIdle
NextBank == Deposit \/ Withdraw
SpecBank == InitBank /\ [][NextBank]_vars

\* ch04_exercises.py: BankAccount and what its caller may do to it
InitAccount == EarlierIdle /\ BaInit /\ AcIdle /\ DkIdle /\ Ch03Idle
NextAccount == AccountDeposit \/ AccountWithdraw \/ AssignBalance \/ GetHistory \/ MutateReturned
SpecAccount == InitAccount /\ [][NextAccount]_vars

\* ch04_exercises.py: Deck
InitDeck == EarlierIdle /\ BaIdle /\ AcIdle /\ DkInit /\ Ch03Idle
NextDeck == DeckShuffle \/ DeckDeal
SpecDeck == InitDeck /\ [][NextDeck]_vars

\* ch03_exercises.py: is_prime and primes_up_to
InitPrimes == EarlierIdle /\ BaIdle /\ AcIdle /\ DkIdle /\ PrInit /\ PfIdle /\ CoIdle /\ CaInit
NextPrimes == CallIsPrime \/ CallPrimesUpTo
SpecPrimes == InitPrimes /\ [][NextPrimes]_vars

\* ch03_exercises.py: prime_factors; a call that has started runs on
InitFactors == EarlierIdle /\ BaIdle /\ AcIdle /\ DkIdle /\ PrInit /\ PfInit /\ CoIdle /\ CaInit
NextFactors == PfWhileOuter \/ PfWhileInner \/ PfReturn
SpecFactors == InitFactors /\ [][NextFactors]_vars /\ WF_vars(NextFactors)

\* ch03_exercises.py: compose
InitCompose == EarlierIdle /\ BaIdle /\ AcIdle /\ DkIdle /\ PrInit /\ PfIdle /\ CoInit /\ CaInit
NextCompose == ComposedStep \/ ComposedReturn
SpecCompose == InitCompose /\ [][NextCompose]_vars

\* ch03_exercises.py: calculate
InitCalculate == EarlierIdle /\ BaIdle /\ AcIdle /\ DkIdle /\ PrInit /\ PfIdle /\ CoIdle /\ CaInit
NextCalculate == CallCalculate
SpecCalculate == InitCalculate /\ [][NextCalculate]_vars

----------------------------------------------------------------------------
(***************************************************************************)
(* The claims                                                              *)
(***************************************************************************)

\* C1: when ch06_file_io.py or ch10_data.py has run to completion, every
\* temporary file and directory the script created has been deleted.
C1_AllTemporariesDeleted ==
    at = "done" => created \cap fs = {}

\* C2: every file object opened by a with-block of the file-I/O scripts or
\* by managed_file is closed once the block is left, whether its body
\* completed or raised: outside a with-block no file object is open, and
\* none is open at the end of the script or after managed_file's block.
C2_HandlesClosedOnExit ==
    /\ at \in {"stmt", "done", "aborted"} => handles = {}
    /\ at \in {"body", "exit"} => handles \subseteq {Cur.path}
    /\ mf_pc \in {"idle", "done"} => mf_open = {}
    /\ mf_pc \in {"yielded", "finally"} => mf_open = {mf_f}

\* C2 witness: managed_file's block was left by an exception in its body
\* after the file was opened, and a with-block of the script was left by an
\* exception too.
C2_Witness ==
    /\ mf_pc = "done" /\ mf_f # "none" /\ mf_exc \in MfErrors
    /\ at = "aborted" /\ created # {}

\* C3: demonstrate_exceptions triggers the five listed kinds in list order,
\* catches each inside the loop, prints exactly one line per kind and
\* returns normally.
C3_DemonstrateExceptions ==
    /\ de_status # "raised"
    /\ Len(de_out) = de_i - 1
    /\ \A k \in 1..Len(de_out) : de_out[k] = <<ExceptionNames[k], ExceptionNames[k]>>
    /\ de_status = "returned" => Len(de_out) = 5

\* C3 witness: the function has returned after its five iterations.
C3_Witness == de_status = "returned" /\ de_i = 6

\* C4 (as stated): whenever process_data_safely raises out of its try
\* block, the exception was logged exactly once.
C4_EveryErrorLoggedOnce ==
    (pds_pc = "raised" /\ pds_data.t # "None") => Len(pds_log) = 1

\* C4 (amended): ValueError for None before any processing and without a
\* log record; an exception of processing propagates unchanged, logged
\* exactly once when it is an Exception and not at all otherwise; the
\* result is returned only when nothing was raised.
C4_NeverSwallows ==
    /\ pds_pc = "raised" /\ pds_data.t = "None" =>
          pds_exc = "ValueError" /\ pds_log = <<>> /\ pds_result = NoResult
    /\ pds_pc \in {"try", "except", "returned"} => pds_data.t # "None"
    /\ pds_pc = "raised" /\ pds_data.t # "None" =>
          /\ pds_exc = PyLenRaises(pds_data) /\ pds_exc # Ok
          /\ pds_result = NoResult
          /\ IF Catches("Exception", pds_exc)
             THEN Len(pds_log) = 1 /\ pds_log[1][2] = pds_exc
             ELSE pds_log = <<>>
    /\ pds_pc = "returned" =>
          /\ pds_exc = Ok /\ pds_log = <<>>
          /\ pds_data.t \in {"dict", "list"}
          /\ pds_result = [processed |-> TRUE, count |-> pds_data.n]

\* C4 witness: a TypeError of len(data) has been logged and re-raised.
C4_Witness ==
    pds_pc = "raised" /\ pds_data.t = "int" /\ pds_exc = "TypeError" /\ Len(pds_log) = 1

\* C5: divide(a, b) raises ValueError("Cannot divide by zero") exactly when
\* b = 0 and otherwise returns the quotient a / b; add(a, b) returns the
\* sum a + b.
C5_AddDivide ==
    /\ ar_fn = "divide" =>
          /\ ar_res.raised <=> ar_b = 0
          /\ ar_res.raised => ar_res.exc = "ValueError" /\ ar_res.msg = "Cannot divide by zero"
          /\ ~ar_res.raised =>
                /\ ar_res.val[2] > 0
                /\ ar_res.val[1] * ar_b = ar_a * ar_res.val[2]
          /\ (ar_a = 10 /\ ar_b = 2) => ar_res.val = <<5, 1>>
    /\ ar_fn = "add" =>
          /\ ~ar_res.raised
          /\ ar_res.val[2] = 1
          /\ ar_res.val[1] - ar_b = ar_a
          /\ (ar_a = 2 /\ ar_b = 3) => ar_res.val[1] = 5
          /\ (ar_a = -1 /\ ar_b = 1) => ar_res.val[1] = 0
          /\ (ar_a = -1 /\ ar_b = -1) => ar_res.val[1] = -2

\* C5 witness: divide(10, 0) has raised.
C5_Witness == ar_fn = "divide" /\ ar_a = 10 /\ ar_b = 0 /\ ar_res.raised



\* C6: D().method() runs the method of each class exactly once, in the
\* order D, B, C, A, and returns "D -> B -> C -> A"; D.__mro__ starts
\* D, B, C, A.
C6_DiamondOrder ==
    mro_self = "D" =>
        /\ SubSeq(Mro("D"), 1, 4) = <<"D", "B", "C", "A">>
        /\ \E n \in 1..4 : mro_calls = SubSeq(<<"D", "B", "C", "A">>, 1, n)
        /\ MroDone => /\ mro_calls = <<"D", "B", "C", "A">>
                      /\ mro_ret = "D -> B -> C -> A"

\* C6 witness: the call on an instance of D has returned.
C6_Witness == mro_self = "D" /\ MroDone /\ Len(mro_calls) = 4

\* The values start, start+1, ..., the first n of them.
CountPrefix(out) == \A k \in 1..Len(out) : out[k] = it_start + k - 1
CountLength == IF it_end > it_start THEN it_end - it_start ELSE 0

\* C7 (state part): CountUp and count_up both yield start, start+1, ... in
\* ascending order and stop after end-1 (yielding nothing when
\* start >= end), so the two exhausted sequences are the same.
C7_SameSequence ==
    /\ CountPrefix(cu_out) /\ Len(cu_out) <= CountLength
    /\ CountPrefix(gen_out) /\ Len(gen_out) <= CountLength
    /\ cu_stops > 0 => Len(cu_out) = CountLength /\ cu_current >= cu_end
    /\ gen_stops > 0 => Len(gen_out) = CountLength
    /\ (cu_stops > 0 /\ gen_stops > 0) => cu_out = gen_out

\* C7: the sequences agree as above, and once CountUp.__next__ has raised
\* StopIteration a later call raises it again and leaves current, end and
\* the values yielded unchanged.
C7_CountUp ==
    /\ []C7_SameSequence
    /\ [][cu_stops > 0 =>
            /\ cu_stops' >= cu_stops
            /\ UNCHANGED <<cu_current, cu_end, cu_out>>]_vars

\* C7 witness: a non-empty range was iterated to the end by both, and
\* CountUp.__next__ was called again after its first StopIteration.
C7_Witness ==
    /\ Len(cu_out) >= 2 /\ cu_stops = 2
    /\ gen_stops >= 1 /\ Len(gen_out) >= 2

IsSorted(q) == \A i \in 1..Len(q) : \A j \in i..Len(q) : q[i] <= q[j]

\* The number of entries of q equal to v
Count(q, v) == Cardinality({i \in 1..Len(q) : q[i] = v})

\* C8: a SortedList is always sorted: after construction from any list and
\* after any sequence of add and remove calls, iterating or indexing it
\* gives its items in non-decreasing order.
C8_AlwaysSorted ==
    /\ IsSorted(SlIter)
    /\ \A i \in 0..(SlLen - 1) : \A j \in i..(SlLen - 1) : SlGetItem(i) <= SlGetItem(j)
    /\ SlLen > 0 => \A i \in 0..(SlLen - 1) : SlGetItem(i) <= SlGetItem(-1)

\* C8 witness: an item was added between a smaller and a larger one.
C8_Witness ==
    /\ sl_op.op = "add" /\ Len(sl_op.before) >= 2
    /\ sl_op.item < sl_op.before[Len(sl_op.before)]
    /\ sl_op.item > sl_op.before[1]

\* C9: remove(item) removes exactly one occurrence and keeps every other
\* element, further copies of item included; when item is absent it raises
\* and leaves the list unchanged; add(item) adds exactly one element and
\* keeps every existing one.
C9_AddRemoveFrame ==
    /\ (sl_op.op = "remove" /\ ~sl_op.raised) =>
          /\ SlLen = Len(sl_op.before) - 1
          /\ \A v \in Values :
                Count(sl_items, v) =
                    Count(sl_op.before, v) - (IF v = sl_op.item THEN 1 ELSE 0)
    /\ (sl_op.op = "remove") =>
          (sl_op.raised <=> Count(sl_op.before, sl_op.item) = 0)
    /\ (sl_op.op = "remove" /\ sl_op.raised) => sl_items = sl_op.before
    /\ sl_op.op = "add" =>
          /\ ~sl_op.raised
          /\ SlLen = Len(sl_op.before) + 1
          /\ \A v \in Values :
                Count(sl_items, v) =
                    Count(sl_op.before, v) + (IF v = sl_op.item THEN 1 ELSE 0)
    /\ (sl_op.op = "remove" /\ sl_op.item = 1 /\ sl_op.before = <<1, 1, 2>>) =>
          sl_items = <<1, 2>>

\* C9 witness: one of two copies of an item has been removed.
C9_Witness ==
    /\ sl_op.op = "remove" /\ ~sl_op.raised
    /\ Count(sl_op.before, sl_op.item) = 2 /\ Count(sl_items, sl_op.item) = 1

\* C10: for a non-negative initial balance, after any deposits and
\* withdrawals with any amounts the balance is never below 0, and a
\* withdrawal of more than the balance fails by returning False.
C10_NoOverdraft ==
    /\ ba_balance >= 0
    /\ (ba_op.op = "withdraw" /\ ba_op.amount > ba_op.before) =>
          ba_op.ret = FALSE /\ ba_balance = ba_op.before

\* C10 witness: a withdrawal of more than a positive balance has failed.
C10_Witness ==
    /\ ba_op.op = "withdraw" /\ ba_op.before > 0 /\ ba_op.amount > ba_op.before
    /\ ba_op.ret = FALSE

\* C11: the account's balance and reported history change only through
\* deposit and withdraw: an assignment to account.balance raises
\* AttributeError and changes nothing, and a mutation of the list
\* get_transaction_history returned changes neither.
C11_OnlyDepositWithdraw ==
    [][ /\ (ac_raised' # ac_raised \/ ac_mutations' # ac_mutations \/ ac_ref' # ac_ref)
           => UNCHANGED <<ba_balance, ba_transactions>>
        /\ (<<ba_balance, ba_transactions>>' # <<ba_balance, ba_transactions>>)
           => /\ ba_op'.op \in {"deposit", "withdraw"}
              /\ UNCHANGED <<ac_raised, ac_mutations, ac_ref, ac_copy>>
        /\ ac_raised' \in {"none", "AttributeError"}
        /\ (ac_raised = "AttributeError") => (ac_raised' = "AttributeError")
      ]_vars

\* An assignment has raised, and the caller holds a returned list that it has
\* mutated and that now differs from the account's non-empty history.
C11_Witness ==
    /\ ac_raised = "AttributeError"
    /\ ac_mutations > 0
    /\ ac_ref # "none"
    /\ ReturnedList # ba_transactions
    /\ Len(ba_transactions) > 0
    /\ ba_balance > 0

FullDeckSet == {<<SUITS[i], RANKS[j]>> : i \in 1..Len(SUITS), j \in 1..Len(RANKS)}
NoDuplicates(seq) == \A i, j \in 1..Len(seq) : seq[i] = seq[j] => i = j
Min(a, b) == IF a < b THEN a ELSE b

\* C12: a new Deck holds the 52 suit-rank pairs once each; after any shuffles
\* and deals the dealt cards and the remaining cards are together those 52,
\* none lost or duplicated; deal(n) returns the first min(n, remaining) cards
\* and removes exactly those.
C12_DeckConserved ==
    /\ Cardinality(FullDeckSet) = 52
    /\ Len(dk_dealt) + Len(dk_cards) = 52
    /\ NoDuplicates(dk_dealt \o dk_cards)
    /\ SeqElems(dk_dealt \o dk_cards) = FullDeckSet
    /\ dk_op.op = "init" => dk_dealt = <<>>
    /\ dk_op.op = "shuffle" =>
          /\ Len(dk_cards) = Len(dk_op.before)
          /\ SeqElems(dk_cards) = SeqElems(dk_op.before)
    /\ dk_op.op = "deal" =>
          /\ Len(dk_op.ret) = Min(dk_op.n, Len(dk_op.before))
          /\ dk_op.before = dk_op.ret \o dk_cards
          /\ \A i \in 1..Len(dk_op.ret) :
                dk_op.ret[i] = dk_dealt[Len(dk_dealt) - Len(dk_op.ret) + i]

\* A shuffled deck from which 5 cards were dealt, then more than remain.
C12_Witness ==
    /\ dk_op.op = "deal"
    /\ dk_op.n > Len(dk_op.before)
    /\ Len(dk_op.ret) = 47
    /\ dk_cards = <<>>
    /\ SubSeq(dk_dealt, 1, 5) # SubSeq(FullDeck, 1, 5)

Divides(d, n) == \E k \in 1..n : d * k = n
Prime(n) == n > 1 /\ \A d \in 2..(n - 1) : ~Divides(d, n)
Ascending(seq) == \A i \in 1..(Len(seq) - 1) : seq[i] < seq[i + 1]

\* C13: is_prime(n) is True exactly when n is prime, also for n < 2, n = 2
\* and even n; primes_up_to(n) is the ascending list of the primes in 2..n.
C13_Primes ==
    /\ pr_fn = "is_prime" =>
          /\ pr_bool = Prime(pr_n)
          /\ pr_n = 17 => pr_bool
          /\ pr_n = 15 => ~pr_bool
    /\ pr_fn = "primes_up_to" =>
          /\ Ascending(pr_list)
          /\ SeqElems(pr_list) = {p \in 2..pr_n : Prime(p)}
          /\ pr_n = 30 => pr_list = <<2, 3, 5, 7, 11, 13, 17, 19, 23, 29>>

\* primes_up_to(30) has returned the ten primes of the exercise.
C13_Witness ==
    /\ pr_fn = "primes_up_to"
    /\ pr_n = 30
    /\ Len(pr_list) = 10
    /\ pr_bool

RECURSIVE Product(_)
Product(seq) == IF seq = <<>> THEN 1 ELSE Head(seq) * Product(Tail(seq))
NonDecreasing(seq) == \A i \in 1..(Len(seq) - 1) : seq[i] <= seq[i + 1]

PfResult ==
    pf_pc = "done" =>
        /\ NonDecreasing(pf_factors)
        /\ \A i \in 1..Len(pf_factors) : Prime(pf_factors[i])
        /\ Product(pf_factors) = pf_arg
        /\ pf_arg = 84 => pf_factors = <<2, 2, 3, 7>>

\* C14: prime_factors(n) for n >= 2 terminates, and what it returns is
\* non-decreasing, holds primes only, and has product n.
C14_PrimeFactors == []PfResult /\ <>(pf_pc = "done")

\* prime_factors(84) has returned [2, 2, 3, 7].
C14_Witness ==
    /\ pf_pc = "done"
    /\ pf_arg = 84
    /\ pf_factors = <<2, 2, 3, 7>>

\* f1(f2(...fn(x))) for functions = <<f1, ..., fn>>
RECURSIVE Nested(_, _)
Nested(functions, x) ==
    IF functions = <<>> THEN x
    ELSE Call(Head(functions), Nested(Tail(functions), x))

\* C15: the composed function returns f(g(h(x))): the functions are applied
\* right to left, each exactly once, to the single argument.
C15_ComposeRightToLeft ==
    /\ \A i \in 1..Len(co_trace) :
          co_trace[i] = co_functions[Len(co_functions) + 1 - i]
    /\ co_pc = "done" =>
          /\ Len(co_trace) = Len(co_functions)
          /\ co_acc = Nested(co_functions, co_x)
          /\ Len(co_functions) = 3 =>
                co_acc = Call(co_functions[1],
                              Call(co_functions[2], Call(co_functions[3], co_x)))
          /\ (co_functions = <<"add_one", "double", "square">> /\ co_x = 3)
                => co_acc = 19

\* compose(add_one, double, square)(3) has returned 19.
C15_Witness ==
    /\ co_pc = "done"
    /\ co_functions = <<"add_one", "double", "square">>
    /\ co_x = 3
    /\ co_acc = 19
    /\ co_trace = <<"square", "double", "add_one">>

\* a * a * ... * a, k times
Power(a, k) == Product([i \in 1..k |-> a])

\* The float <<n, d>> is the numeric value of a op b
IsValue(v, a, op, b) ==
    /\ v[2] > 0
    /\ Gcd(Abs(v[1]), v[2]) = 1
    /\ CASE op = "+" -> v = <<a + b, 1>>
         [] op = "-" -> v = <<a - b, 1>>
         [] op = "*" -> v = <<a * b, 1>>
         [] op = "/" -> v[1] * b = a * v[2]
         [] op = "**" -> IF b >= 0 THEN v = <<Power(a, b), 1>>
                         ELSE v[1] * Power(a, -b) = v[2]
         [] op = "//" -> /\ v[2] = 1
                         /\ b > 0 => (v[1] * b <= a /\ a < v[1] * b + b)
                         /\ b < 0 => (v[1] * b >= a /\ a > v[1] * b + b)
         [] op = "%" -> /\ v[2] = 1
                        /\ b > 0 => (0 <= v[1] /\ v[1] < b)
                        /\ b < 0 => (b < v[1] /\ v[1] <= 0)
                        /\ \E q \in (-Abs(a) - 1)..(Abs(a) + 1) : a = q * b + v[1]

\* a op b has a numeric value
Defined(a, op, b) ==
    /\ op \in {"/", "//", "%"} => b # 0
    /\ op = "**" /\ b < 0 => a # 0

\* a ** b with a magnitude of 2 ** 1024 or more
BeyondFloat(a, op, b) == op = "**" /\ Abs(a) >= 2 /\ b >= DblMaxExp

====
